---- MODULE Spec2Model ----
(***************************************************************************)
(* Layered configuration of halmos (src/src/halmos/config.py).             *)
(*                                                                         *)
(* A Config object is one layer: a source tag, a parent link and one       *)
(* stored value per schema field (None when the layer has no opinion).     *)
(* Layers live in the sequence `layers`; a layer is named by its index,    *)
(* which stands for the identity of the Python object.  Index 1 is the     *)
(* default layer; NoLayer (0) stands for a parent of None.                 *)
(*                                                                         *)
(* Python values are boxed: None is the empty tuple and a present value v  *)
(* is the one-element tuple <<v>>, so that None differs from every value,  *)
(* falsy ones included, whatever the type of the field.  Strings that the  *)
(* code takes apart (codec input, the solver command) are sequences of     *)
(* one-character strings.                                                  *)
(***************************************************************************)
EXTENDS Integers, Sequences, FiniteSets, TLC

VARIABLES
    layers,     \* the Config objects built so far
    status,     \* "running", or how the process ended: "exit2", "TypeError", ...
    reported,   \* the error handed to warn() before sys.exit(2), boxed
    call,       \* the arguments of the last with_overrides call, boxed
    cache,      \* per layer, the instance's cached resolved_solver_command
    log,        \* the warnings emitted so far
    ret,        \* the outcome of the last read of resolved_solver_command
    nreads,     \* how often resolved_solver_command was read, per layer read
    pc,         \* where the assembly of the configuration stands
    parsed,     \* the document handed to TomlParser.parse_dict, boxed
    parse_out,  \* what parse_dict returned or raised, boxed
    argv,       \* the command line handed to the argument parser, boxed
    fs,         \* the paths that exist in the file system
    located,    \* the last call of resolve_config_files and its result, boxed
    trip,       \* the last value sent through a codec and back, boxed
    lru,        \* the cache of __getattribute__, the least recently used first
    got,        \* the outcome of each attribute read of the last operation
    evictions,  \* how many entries the cache has dropped
    swept,      \* the last layer all of whose options were read
    nfieldreads, \* how often a single option was read
    workers,    \* per worker thread, where its read of resolved_solver_command stands
    template    \* the entries of the generated config file, boxed

solverVars == <<log, ret, nreads>>

loadVars == <<pc, parsed, parse_out, argv>>

locateVars == <<fs, located>>

codecVars == <<trip>>

memoVars == <<lru, got, evictions, swept, nfieldreads>>

workerVars == <<workers>>

\* the variables of the parts of the program that the layers do not touch
templateVars == <<template>>

restVars == <<codecVars, memoVars, workerVars, templateVars>>

vars ==
    <<layers, status, reported, call, cache, log, ret, nreads, pc, parsed,
      parse_out, argv, fs, located, restVars>>

---------------------------------------------------------------------------
(* Bounds of the model *)

MaxLayers == 2

\* layers built in the run that tries every kind of override key
MaxKeyLayers == 1

\* the resolution of a duration: ticks in a millisecond
TicksPerMs == 2

\* worker threads that read resolved_solver_command
MaxWorkers == 2

\* layers derived in the run that reads attributes
MaxMemoLayers == 3

\* reads of a single option in that run
MaxFieldReads == 1

\* the longest duration sent through the codec, in seconds
MaxSeconds == 3

\* the longest list, and the largest set and map, sent through a codec
MaxListLen == 2

\* reads of resolved_solver_command in one run, over all layers
MaxReads == 3

\* keys in the [global] table of a config file
MaxFileKeys == 2

\* occurrences of a repeatable flag on the command line
MaxFlagRepeats == 2

---------------------------------------------------------------------------
(* Python values *)

None == <<>>

Some(v) == <<v>>

Unbox(b) == b[1]

\* truthiness of a boxed string (a sequence of characters): None and "" are falsy
Truthy(b) == b # None /\ Unbox(b) # <<>>

---------------------------------------------------------------------------
(* class ConfigSource(IntEnum) *)

void == 0

default == 1

config_file == 2

contract_annotation == 3

function_annotation == 4

command_line == 5

ConfigSource ==
    {void, default, config_file, contract_annotation, function_annotation,
     command_line}

---------------------------------------------------------------------------
(* The schema: the fields of the Config dataclass that the model keeps *)

InternalFields == {"_parent", "_source"}

Fields ==
    {"root", "config", "loop", "array_lengths", "default_array_lengths",
     "ffi", "version", "coverage_output", "verbose", "json_output",
     "trace_memory", "solver", "solver_command", "log"}

\* the fields whose type annotation is bool
BoolFields == {"ffi", "version", "trace_memory"}

\* the fields declared with countable=True
CountableFields == {"verbose"}

\* the fields declared with action=ParseCSVInt
CSVIntFields == {"default_array_lengths"}

\* the fields declared with action=ParseArrayLengths
ArrayLengthsFields == {"array_lengths"}

SchemaFields == InternalFields \cup Fields

NoLayer == 0

\* Config(_parent=..., _source=..., **kw): every field not given is None
Config(parent, source, kw) ==
    [_parent |-> parent,
     _source |-> source,
     vals    |-> [f \in Fields |-> IF f \in DOMAIN kw THEN kw[f] ELSE None]]

---------------------------------------------------------------------------
(* The codecs, on strings as sequences of characters *)

Digits == <<"0", "1", "2", "3", "4", "5", "6", "7", "8", "9">>

HexDigits == Digits \o <<"a", "b", "c", "d", "e", "f">>

IsDigit(ch) == \E d \in 1..Len(Digits) : Digits[d] = ch

DigitValue(ch) == (CHOOSE d \in 1..Len(HexDigits) : HexDigits[d] = ch) - 1

RECURSIVE split(_, _)
\* str.split(sep): the pieces between the separators, empty ones included
split(str, sep) ==
    IF str = <<>> THEN <<(<<>>)>>
    ELSE LET rest == split(Tail(str), sep)
         IN  IF Head(str) = sep
             THEN <<(<<>>)>> \o rest
             ELSE <<(<<Head(str)>> \o Head(rest))>> \o Tail(rest)

RECURSIVE strip(_)
\* str.strip(): without the blanks at both ends
strip(str) ==
    IF str = <<>> THEN <<>>
    ELSE IF Head(str) = " " THEN strip(Tail(str))
    ELSE IF str[Len(str)] = " " THEN strip(SubSeq(str, 1, Len(str) - 1))
    ELSE str

\* parse_csv: the stripped pieces that are not empty
parse_csv(values) ==
    LET pieces == split(values, ",")
        stripped == [n \in 1..Len(pieces) |-> strip(pieces[n])]
    IN  SelectSeq(stripped, LAMBDA x : x # <<>>)

RECURSIVE join_str(_, _)
\* sep.join(items)
join_str(sep, items) ==
    IF items = <<>> THEN <<>>
    ELSE IF Len(items) = 1 THEN items[1]
    ELSE items[1] \o sep \o join_str(sep, Tail(items))

\* a literal without its sign
Unsigned(x) == IF x # <<>> /\ Head(x) \in {"-", "+"} THEN Tail(x) ELSE x

\* the sign of a literal
Sign(x) == IF x # <<>> /\ Head(x) = "-" THEN -1 ELSE 1

RECURSIVE Positional(_, _)
\* the number that the digits of x write in the given base
Positional(x, base) ==
    IF x = <<>> THEN 0
    ELSE base * Positional(SubSeq(x, 1, Len(x) - 1), base) + DigitValue(x[Len(x)])

\* int(x) accepts x: an optional sign and a non-empty run of digits (the
\* blanks around it are gone after parse_csv; underscores are not written)
IsInt(x) ==
    /\ Unsigned(x) # <<>>
    /\ \A n \in 1..Len(Unsigned(x)) : IsDigit(Unsigned(x)[n])

int(x) == Sign(x) * Positional(Unsigned(x), 10)

RECURSIVE Rendered(_, _)
\* the digits of the natural number n in the given base
Rendered(n, base) ==
    IF n < base THEN <<HexDigits[n + 1]>>
    ELSE Rendered(n \div base, base) \o <<HexDigits[(n % base) + 1]>>

\* str(v) of an integer
str_of(v) == IF v < 0 THEN <<"-">> \o Rendered(-v, 10) ELSE Rendered(v, 10)

\* ParseCSVInt.parse: the list of integers, or ValueError from int() or from
\* ensure_non_empty
ParseCSVInt_parse(values) ==
    LET items == parse_csv(values)
    IN  IF items = <<>> \/ \E n \in 1..Len(items) : ~IsInt(items[n])
        THEN [ok |-> FALSE, value |-> <<>>]
        ELSE [ok |-> TRUE, value |-> [n \in 1..Len(items) |-> int(items[n])]]

\* ParseCSVInt.unparse
ParseCSVInt_unparse(values) ==
    join_str(<<",">>, [n \in 1..Len(values) |-> str_of(values[n])])

\* what a parse raises
ValueError == [ok |-> FALSE, value |-> <<>>]

Parsed(value) == [ok |-> TRUE, value |-> value]

\* the length of the longest prefix of text whose characters are all in
\* chars (inside = TRUE) or all outside chars (inside = FALSE)
Run(text, chars, inside) ==
    CHOOSE n \in 0..Len(text) :
        /\ \A k \in 1..n : (text[k] \in chars) = inside
        /\ n = Len(text) \/ (text[n + 1] \in chars) # inside

DigitSet == {Digits[d] : d \in 1..Len(Digits)}

HexDigitSet == {HexDigits[d] : d \in 1..Len(HexDigits)}

\* A duration is a number of seconds; the model counts it in ticks, a whole
\* number of which make a millisecond, so that fractions of a millisecond
\* and of a second can be told from whole ones.
TicksPerSecond == 1000 * TicksPerMs

\* halmos.utils.parse_time(values, default_unit): a number and an optional
\* unit, ms or s, to a number of seconds
parse_time(values, default_unit) ==
    LET n == Run(values, DigitSet, TRUE)
        given == SubSeq(values, n + 1, Len(values))
        unit == IF given = <<>> THEN default_unit ELSE given
    IN  IF n = 0 THEN ValueError
        ELSE IF unit = <<"m", "s">>
        THEN Parsed(Positional(SubSeq(values, 1, n), 10) * TicksPerMs)
        ELSE IF unit = <<"s">>
        THEN Parsed(Positional(SubSeq(values, 1, n), 10) * TicksPerSecond)
        ELSE ValueError

\* ParseTimeout.parse: ms is the default unit
ParseTimeout_parse(values) == parse_time(values, <<"m", "s">>)

\* ParseTimeout.unparse: int(value * 1000) ms below one second, int(value) s
\* from one second on
ParseTimeout_unparse(value) ==
    IF value < TicksPerSecond
    THEN str_of((value * 1000) \div TicksPerSecond) \o <<"m", "s">>
    ELSE str_of(value \div TicksPerSecond) \o <<"s">>

\* the values of the enumeration TraceEvent
TraceEvent ==
    {<<"L", "O", "G">>, <<"S", "S", "T", "O", "R", "E">>,
     <<"S", "L", "O", "A", "D">>}

\* ParseCSVTraceEvent.parse: the empty list is accepted
ParseCSVTraceEvent_parse(values) ==
    LET items == parse_csv(values)
    IN  IF \E n \in 1..Len(items) : items[n] \notin TraceEvent
        THEN ValueError
        ELSE Parsed(items)

\* ParseCSVTraceEvent.unparse
ParseCSVTraceEvent_unparse(values) == join_str(<<",">>, values)

\* int(x, 0) accepts x: an optional sign, then 0x and hexadecimal digits, or
\* decimal digits that do not start with 0 unless all of them are 0 (the
\* prefixes 0b and 0o are not written)
IsInt0(x) ==
    LET u == Unsigned(x)
    IN  IF Len(u) >= 2 /\ u[1] = "0" /\ u[2] \in {"x", "X"}
        THEN /\ Len(u) > 2
             /\ \A n \in 3..Len(u) : u[n] \in HexDigitSet
        ELSE /\ IsInt(x)
             /\ u[1] = "0" => \A n \in 1..Len(u) : u[n] = "0"

int0(x) ==
    LET u == Unsigned(x)
    IN  IF Len(u) >= 2 /\ u[1] = "0" /\ u[2] \in {"x", "X"}
        THEN Sign(x) * Positional(SubSeq(u, 3, Len(u)), 16)
        ELSE int(x)

\* ParseErrorCodes.parse: * is the empty set, which matches any code
ParseErrorCodes_parse(values) ==
    LET stripped == strip(values)
        items == parse_csv(stripped)
    IN  IF stripped = <<"*">> THEN Parsed({})
        ELSE IF items = <<>> \/ \E n \in 1..Len(items) : ~IsInt0(items[n])
        THEN ValueError
        ELSE Parsed({int0(items[n]) : n \in 1..Len(items)})

\* f"{v:02x}": the sign counts for the width of two
format_02x(v) ==
    IF v < 0 THEN <<"-">> \o Rendered(-v, 16)
    ELSE IF v < 16 THEN <<"0">> \o Rendered(v, 16)
    ELSE Rendered(v, 16)

\* ParseErrorCodes.unparse; order lists the set as its iteration gives it
ParseErrorCodes_unparse(order) ==
    IF order = <<>> THEN <<"*">>
    ELSE join_str(<<",">>,
                  [n \in 1..Len(order) |-> <<"0", "x">> \o format_02x(order[n])])

\* one match of the pattern of line 196
Match(name, sizes) == [name |-> name, sizes |-> sizes]

RECURSIVE Matches(_)
\* what follows the sizes of a match: the end, or a comma and more matches
FurtherMatches(name, sizes, rest) ==
    IF rest = <<>> THEN Parsed(<<Match(name, sizes)>>)
    ELSE IF Head(rest) # "," THEN ValueError
    ELSE LET more == Matches(Tail(rest))
         IN  IF more.ok
             THEN Parsed(<<Match(name, sizes)>> \o more.value)
             ELSE ValueError

\* lines 193-196: text is accepted when it is a run of name=sizes, each
\* followed by a comma or the end, sizes being digits and commas in braces
\* or digits alone; the names and sizes are then found in order
Matches(text) ==
    IF text = <<>> THEN Parsed(<<>>)
    ELSE LET n == Run(text, {"=", ",", "{", "}"}, FALSE)
             name == SubSeq(text, 1, n)
             body == SubSeq(text, n + 2, Len(text))
         IN  IF n = 0 \/ n = Len(text) \/ text[n + 1] # "="
             THEN ValueError
             ELSE IF body # <<>> /\ Head(body) = "{"
             THEN LET m == Run(Tail(body), DigitSet \cup {","}, TRUE)
                  IN  IF m = 0 \/ m + 2 > Len(body) \/ body[m + 2] # "}"
                      THEN ValueError
                      ELSE FurtherMatches(name, SubSeq(body, 2, m + 1),
                                          SubSeq(body, m + 3, Len(body)))
             ELSE LET m == Run(body, DigitSet, TRUE)
                  IN  IF m = 0
                      THEN ValueError
                      ELSE FurtherMatches(name, SubSeq(body, 1, m),
                                          SubSeq(body, m + 1, Len(body)))

\* ParseArrayLengths.parse: the blanks are removed first; a name given twice
\* keeps its last sizes
ParseArrayLengths_parse(values) ==
    LET text == SelectSeq(values, LAMBDA ch : ch # " ")
        found == Matches(text)
    IN  IF values = <<>> THEN Parsed(<<>>)
        ELSE IF ~found.ok THEN ValueError
        ELSE IF \E n \in 1..Len(found.value) :
                    ~ParseCSVInt_parse(found.value[n].sizes).ok
        THEN ValueError
        ELSE LET last(name) ==
                     CHOOSE n \in 1..Len(found.value) :
                         /\ found.value[n].name = name
                         /\ \A k \in n + 1..Len(found.value) :
                                found.value[k].name # name
             IN  Parsed([name \in {found.value[n].name : n \in 1..Len(found.value)} |->
                            ParseCSVInt_parse(found.value[last(name)].sizes).value])

\* ParseArrayLengths.unparse; order lists the keys as values.items() gives them
ParseArrayLengths_unparse(values, order) ==
    join_str(<<",">>,
             [n \in 1..Len(order) |->
                 order[n] \o <<"=", "{">>
                     \o ParseCSVInt_unparse(values[order[n]]) \o <<"}">>])

---------------------------------------------------------------------------
(* The default layer *)

\* os.getcwd()
cwd == <<"cwd">>

\* os.path.join(a, b) for a relative b
join(a, b) == IF a = <<>> THEN b ELSE a \o <<"/">> \o b

\* the fields whose global_default is a function without arguments
CallableDefaults == {"root", "config"}

\* the global_default metadata of each field; a function is named
global_default(f) ==
    CASE f = "root" -> Some(<<"os.getcwd">>)
      [] f = "config" -> Some(<<"lambda">>)
      [] f = "loop" -> Some(2)
      [] f = "array_lengths" -> None
      [] f = "default_array_lengths" -> Some(<<"0", ",", "1", ",", "2">>)
      [] f = "ffi" -> Some(FALSE)
      [] f = "version" -> Some(FALSE)
      [] f = "coverage_output" -> None
      [] f = "verbose" -> Some(0)
      [] f = "json_output" -> None
      [] f = "trace_memory" -> Some(FALSE)
      [] f = "solver" -> Some("yices")
      [] f = "solver_command" -> Some(<<>>)
      [] f = "log" -> None

\* default(): what the function of a callable default returns
called_default(f) ==
    CASE f = "root" -> Some(cwd)
      [] f = "config" -> Some(join(cwd, <<"halmos.toml">>))

\* the mutant of raw_value: a function is stored as it is
raw_value_uncalled(f) == global_default(f)

\* line 841: default() if callable(default) else default
raw_value(f) ==
    IF f \in CallableDefaults THEN called_default(f) ELSE global_default(f)

\* line 845: action.parse(raw_value) if action else raw_value;
\* ParseArrayLengths.parse takes None for an empty map
default_value(f) ==
    IF f \in CSVIntFields
    THEN Some(ParseCSVInt_parse(Unbox(raw_value(f))).value)
    ELSE IF f \in ArrayLengthsFields
    THEN Some(IF raw_value(f) = None
              THEN <<>>
              ELSE ParseArrayLengths_parse(Unbox(raw_value(f))).value)
    ELSE raw_value(f)

_create_default_config ==
    Config(NoLayer, default, [f \in Fields |-> default_value(f)])

---------------------------------------------------------------------------
(* Config.value_with_source *)

\* the mutants of Takes used to test the claims
TakesOnTie(value, current_source, best_source) ==
    value # None /\ current_source >= best_source

TakesNone(value, current_source, best_source) ==
    current_source > best_source

\* line 689: does the current layer replace the best value seen so far
Takes(value, current_source, best_source) ==
    value # None /\ current_source > best_source

RECURSIVE Walk(_, _, _, _)
\* the while loop of value_with_source, from `current` to the root of the
\* chain; best is <<best_value, best_source>>
Walk(ls, current, name, best) ==
    IF current = NoLayer
    THEN best
    ELSE LET value == ls[current].vals[name]
             current_source == ls[current]._source
         IN  Walk(ls, ls[current]._parent, name,
                  IF Takes(value, current_source, best[2])
                  THEN <<value, current_source>>
                  ELSE best)

value_with_source(ls, self, name) == Walk(ls, self, name, <<None, void>>)

---------------------------------------------------------------------------
(* Config.with_overrides *)

\* keys of **overrides that collide with the parameters of with_overrides
\* itself: Python raises TypeError at the call, before the try block
BindingClash(overrides) == DOMAIN overrides \cap {"self", "source"}

\* keys that Config(_parent=self, _source=source, **overrides) gets twice
Duplicated(overrides) == DOMAIN overrides \cap InternalFields

\* keys that are no parameter of the generated Config.__init__
Unexpected(overrides) == DOMAIN overrides \ SchemaFields

\* line 680: warn(f"error: unrecognized argument: ...")
Unrecognized(k) == Some([error |-> "unrecognized argument", key |-> k])

\* the mutant of with_overrides: the overrides are written into self, which
\* then takes the new source, before the new layer is made
with_overrides_in_place(self, source, overrides) ==
    /\ call' = Some([self |-> self, source |-> source, overrides |-> overrides])
    /\ IF DOMAIN overrides \subseteq Fields
       THEN /\ layers' = Append([layers EXCEPT ![self] =
                                    Config(layers[self]._parent, source, overrides)],
                                Config(self, source, overrides))
            /\ cache' = Append(cache, None)
            /\ UNCHANGED <<status, reported>>
       ELSE /\ status' = "exit2"
            /\ reported' = Unrecognized(CHOOSE k \in DOMAIN overrides \ Fields : TRUE)
            /\ UNCHANGED <<layers, cache>>

\* the whole call: the new layer is appended (a new object, with nothing in
\* its __dict__ for cached_property yet), or the process ends.  Which of
\* several offending keys Python names depends on the order of the keys in
\* the dictionary, which is an input: any of them can be the one.
with_overrides(self, source, overrides) ==
    /\ call' = Some([self |-> self, source |-> source, overrides |-> overrides])
    /\ IF BindingClash(overrides) # {}
       THEN /\ status' = "TypeError"
            /\ UNCHANGED <<layers, cache, reported>>
       ELSE IF Duplicated(overrides) # {}
       THEN /\ \E k \in Duplicated(overrides) : reported' = Unrecognized(k)
            /\ status' = "exit2"
            /\ UNCHANGED <<layers, cache>>
       ELSE IF Unexpected(overrides) # {}
       THEN /\ \E k \in Unexpected(overrides) : reported' = Unrecognized(k)
            /\ status' = "exit2"
            /\ UNCHANGED <<layers, cache>>
       ELSE /\ layers' = Append(layers, Config(self, source, overrides))
            /\ cache' = Append(cache, None)
            /\ UNCHANGED <<status, reported>>

---------------------------------------------------------------------------
(* Specification Spec: chains of layers built by with_overrides *)

\* a keyword argument is left out (<<>>) or given (<<v>>, v possibly None)
Absent == <<>>

\* coverage_output is the field the chains override: its default is None, so
\* that the layers built here are the only ones that can store a value
CoverageChoices == {Absent, <<None>>, <<Some("")>>, <<Some("x")>>}

\* the dictionary **overrides with coverage_output given or left out
ChainOverrides(b) ==
    [k \in {"coverage_output" : x \in {b} \ {Absent}} |-> b[1]]

\* a worker thread that is not reading
Idle == [pc |-> "idle", self |-> NoLayer, val |-> None, out |-> None]

\* nothing has gone through a codec yet and no attribute was read
RestInit ==
    /\ trip = None
    /\ lru = <<>>
    /\ got = <<>>
    /\ evictions = 0
    /\ swept = NoLayer
    /\ nfieldreads = 0
    /\ workers = [w \in 1..MaxWorkers |-> Idle]
    /\ template = None

Init ==
    /\ layers = <<_create_default_config>>
    /\ status = "running"
    /\ reported = None
    /\ call = None
    /\ cache = <<None>>
    /\ log = <<>>
    /\ ret = None
    /\ nreads = <<>>
    /\ pc = "start"
    /\ parsed = None
    /\ parse_out = None
    /\ argv = None
    /\ fs = {}
    /\ located = None
    /\ RestInit

BuildLayer ==
    /\ status = "running"
    /\ Len(layers) <= MaxLayers
    /\ \E self \in 1..Len(layers), source \in ConfigSource,
          b \in CoverageChoices :
            with_overrides(self, source, ChainOverrides(b))
    /\ UNCHANGED <<solverVars, loadVars, locateVars, restVars>>

Next == BuildLayer

Spec == Init /\ [][Next]_vars

---------------------------------------------------------------------------
(* Claims about the resolver, checked under Spec *)

RECURSIVE ChainOf(_, _)
\* the layers of the chain of layer i, the leaf first
ChainOf(ls, i) ==
    IF i = NoLayer THEN <<>> ELSE <<i>> \o ChainOf(ls, ls[i]._parent)

\* the positions of chain c whose layer stores a value for field f
PresentIn(ls, c, f) == {k \in 1..Len(c) : ls[c[k]].vals[f] # None}

\* the highest source among the layers of c at the positions P
HighestSource(ls, c, P) ==
    CHOOSE s \in {ls[c[k]]._source : k \in P} :
        \A k \in P : ls[c[k]]._source <= s

\* the position closest to the leaf among those of P with source s
ClosestWith(ls, c, P, s) ==
    CHOOSE k \in P :
        /\ ls[c[k]]._source = s
        /\ \A j \in P : ls[c[j]]._source = s => k <= j

\* what the claim says value_with_source returns, the layers at positions P
\* being those that count
WinnerAmong(ls, c, P, f) ==
    IF P = {}
    THEN <<None, void>>
    ELSE LET s == HighestSource(ls, c, P)
         IN  <<ls[c[ClosestWith(ls, c, P, s)]].vals[f], s>>

\* C1 as stated: for every chain and field, value_with_source returns the
\* value of the layer closest to the leaf among the layers of highest source
\* that store a present value, and (None, void) when no layer stores one.
C1_HighestPresentWins ==
    \A i \in 1..Len(layers), f \in Fields :
        LET c == ChainOf(layers, i)
        IN  value_with_source(layers, i, f) =
                WinnerAmong(layers, c, PresentIn(layers, c, f), f)

\* C1 amended: the same, among the layers whose source is above void; a
\* value stored by a layer tagged void is never returned.
C1_HighestNonVoidPresentWins ==
    \A i \in 1..Len(layers), f \in Fields :
        LET c == ChainOf(layers, i)
            P == {k \in PresentIn(layers, c, f) : layers[c[k]]._source > void}
        IN  value_with_source(layers, i, f) = WinnerAmong(layers, c, P, f)

\* a leaf from the config file storing the falsy "" under a parent from the
\* command line storing "x", over the default layer: the parent wins
C1_Witness ==
    \E i \in 1..Len(layers) :
        LET c == ChainOf(layers, i)
        IN  /\ Len(c) = 3
            /\ layers[c[1]]._source = config_file
            /\ layers[c[1]].vals["coverage_output"] = Some("")
            /\ layers[c[2]]._source = command_line
            /\ layers[c[2]].vals["coverage_output"] = Some("x")
            /\ value_with_source(layers, i, "coverage_output")
                    = <<Some("x"), command_line>>

\* the n-th smallest element of a set of numbers
Nth(S, n) == CHOOSE k \in S : Cardinality({j \in S : j <= k}) = n

\* the chain c without the positions D, as a store of its own: the layer at
\* index 1 is the leaf and each layer's parent is the next one kept
Without(ls, c, D) ==
    LET kept == (1..Len(c)) \ D
        m == Cardinality(kept)
    IN  [n \in 1..m |->
            [ls[c[Nth(kept, n)]] EXCEPT
                !._parent = IF n = m THEN NoLayer ELSE n + 1]]

\* C2: absence is transparent: a chain resolves field f to the same
\* (value, source) as the chain without any set of its layers that store
\* no value for f, wherever they are and whatever their source.
C2_AbsenceTransparent ==
    \A i \in 1..Len(layers), f \in Fields :
        LET c == ChainOf(layers, i)
            silent == (1..Len(c)) \ PresentIn(layers, c, f)
        IN  \A D \in SUBSET silent :
                LET rest == Without(layers, c, D)
                IN  value_with_source(rest, IF Len(rest) = 0 THEN NoLayer ELSE 1, f)
                        = value_with_source(layers, i, f)

\* a command-line layer with no value for coverage_output between a
\* config-file leaf that stores one and the default layer
C2_Witness ==
    \E i \in 1..Len(layers) :
        LET c == ChainOf(layers, i)
        IN  /\ Len(c) = 3
            /\ layers[c[1]]._source = config_file
            /\ layers[c[1]].vals["coverage_output"] = Some("x")
            /\ layers[c[2]]._source = command_line
            /\ layers[c[2]].vals["coverage_output"] = None
            /\ value_with_source(layers, i, "coverage_output")
                    = <<Some("x"), config_file>>

---------------------------------------------------------------------------
(* Specification SpecKeys: with_overrides called with any keys *)

\* keys that name no settable field: the two internal fields, a name outside
\* the schema, and the names of the parameters of with_overrides itself
BadKeys == {"_parent", "_source", "foo", "source", "self"}

\* coverage_output given or left out, and any set of bad keys
KeyOverrides(b, bad) ==
    [k \in DOMAIN ChainOverrides(b) \cup bad |->
        IF k = "coverage_output" THEN b[1] ELSE Some("v")]

OverrideKeys ==
    /\ status = "running"
    /\ Len(layers) <= MaxKeyLayers
    /\ \E self \in 1..Len(layers), source \in ConfigSource,
          b \in CoverageChoices, bad \in SUBSET BadKeys :
            with_overrides(self, source, KeyOverrides(b, bad))
    /\ UNCHANGED <<solverVars, loadVars, locateVars, restVars>>

NextKeys == OverrideKeys

SpecKeys == Init /\ [][NextKeys]_vars

\* C4: a with_overrides call produces a new layer if and only if every
\* override key names a non-internal schema field; otherwise no layer is
\* produced and the process exits with status 2 after reporting one of the
\* offending keys as an unrecognized argument.
C4_LayerIffSettableKeys ==
    [][LET c == Unbox(call')
           keys == DOMAIN c.overrides
       IN  IF keys \subseteq Fields
           THEN /\ layers' = Append(layers, Config(c.self, c.source, c.overrides))
                /\ status' = "running"
           ELSE /\ layers' = layers
                /\ status' = "exit2"
                /\ reported' # None
                /\ Unbox(reported').error = "unrecognized argument"
                /\ Unbox(reported').key \in keys \ Fields]_vars

---------------------------------------------------------------------------
(* Config.resolved_solver_command *)

RECURSIVE shlex_split(_)
\* shlex.split on a string of letters and blanks: the maximal runs of
\* letters, in order
shlex_split(str) ==
    IF str = <<>> THEN <<>>
    ELSE IF Head(str) = " " THEN shlex_split(Tail(str))
    ELSE LET rest == shlex_split(Tail(str))
         IN  IF Len(str) > 1 /\ str[2] # " "
             THEN <<(<<Head(str)>> \o Head(rest))>> \o Tail(rest)
             ELSE <<(<<Head(str)>>)>> \o rest

\* halmos.solvers.get_solver_command: the command of a solver the registry
\* knows and finds installed, None otherwise.  Here yices is available and
\* z3 is not.
get_solver_command(solver) ==
    IF solver = Some("yices") THEN Some(<<(<<"y">>), (<<"-", "m">>)>>) ELSE None

\* the mutant of OverrideWins: the override needs a strictly higher source
OverrideWinsStrictly(solver_command, solver_command_source, solver_source) ==
    /\ Truthy(solver_command)
    /\ solver_command_source # void
    /\ solver_command_source > solver_source

\* lines 735-739: --solver-command overrides --solver if it is at least as
\* high precedence
OverrideWins(solver_command, solver_command_source, solver_source) ==
    /\ Truthy(solver_command)
    /\ solver_command_source # void
    /\ solver_command_source >= solver_source

\* the mutant of SamePrecedence: the warning also comes on a higher source
SamePrecedenceOrHigher(solver_command_source, solver_source) ==
    solver_command_source >= solver_source

\* line 740: both options come from the same precedence level
SamePrecedence(solver_command_source, solver_source) ==
    solver_command_source = solver_source

\* halmos.logs.warn(text, allow_duplicate=False): the text is emitted unless
\* the same text was emitted before.  The text of the warning of line 741
\* depends on the source level alone, which stands for it here; `by`
\* remembers the layer whose read emitted it.
warn_unique(text, by) ==
    IF \E k \in 1..Len(log) : log[k].text = text
    THEN log
    ELSE Append(log, [text |-> text, by |-> by])

\* the mutant of Computed: a solver without a command is not an error
ComputedUnchecked(solver_command, solver_command_source, solver, solver_source) ==
    IF OverrideWins(solver_command, solver_command_source, solver_source)
    THEN [kind |-> "value", cmd |-> shlex_split(Unbox(solver_command))]
    ELSE LET command == get_solver_command(solver)
         IN  [kind |-> "value", cmd |-> IF command = None THEN <<>> ELSE Unbox(command)]

\* lines 735-755: what the body of the property returns or raises
Computed(solver_command, solver_command_source, solver, solver_source) ==
    IF OverrideWins(solver_command, solver_command_source, solver_source)
    THEN [kind |-> "value", cmd |-> shlex_split(Unbox(solver_command))]
    ELSE LET command == get_solver_command(solver)
         IN  IF command = None
             THEN [kind |-> "RuntimeError", cmd |-> <<>>]
             ELSE [kind |-> "value", cmd |-> Unbox(command)]

\* the number of reads counted in n
RECURSIVE TotalReads(_)
TotalReads(n) ==
    IF DOMAIN n = {} THEN 0
    ELSE LET i == CHOOSE j \in DOMAIN n : TRUE
         IN  n[i] + TotalReads([j \in DOMAIN n \ {i} |-> n[j]])

Reads(i) == IF i \in DOMAIN nreads THEN nreads[i] ELSE 0

\* one read of self.resolved_solver_command: cached_property returns the
\* value in the instance's __dict__ when there is one, and otherwise runs
\* the body and stores what it returns (nothing when it raises)
resolved_solver_command(self) ==
    /\ nreads' = [j \in DOMAIN nreads \cup {self} |->
                      Reads(j) + IF j = self THEN 1 ELSE 0]
    /\ IF cache[self] # None
       THEN /\ ret' = Some([layer |-> self, kind |-> "value",
                            cmd |-> Unbox(cache[self])])
            /\ UNCHANGED <<cache, log>>
       ELSE LET s == value_with_source(layers, self, "solver")
                c == value_with_source(layers, self, "solver_command")
                out == Computed(c[1], c[2], s[1], s[2])
            IN  /\ log' = IF /\ OverrideWins(c[1], c[2], s[2])
                             /\ SamePrecedence(c[2], s[2])
                          THEN warn_unique(s[2], self)
                          ELSE log
                /\ ret' = Some([layer |-> self, kind |-> out.kind,
                                cmd |-> out.cmd])
                /\ cache' = IF out.kind = "value"
                            THEN [cache EXCEPT ![self] = Some(out.cmd)]
                            ELSE cache

---------------------------------------------------------------------------
(* Specification SpecSolver: one chain of layers that set solver and
   solver_command, each layer derived from the last one, and reads of
   resolved_solver_command on any of them *)

SolverSources == {config_file, command_line}

SolverChoices == {Absent, <<Some("z3")>>, <<Some("yices")>>}

SolverCommandChoices == {Absent, <<Some(<<"a", " ", "b">>)>>}

SolverOverrides(a, b) ==
    [k \in {"solver" : x \in {a} \ {Absent}} \cup
            {"solver_command" : x \in {b} \ {Absent}} |->
        IF k = "solver" THEN a[1] ELSE b[1]]

SolverLayer ==
    /\ status = "running"
    /\ Len(layers) <= MaxLayers
    /\ \E source \in SolverSources,
          a \in SolverChoices, b \in SolverCommandChoices :
            with_overrides(Len(layers), source, SolverOverrides(a, b))
    /\ UNCHANGED <<solverVars, loadVars, locateVars, restVars>>

ReadSolverCommand ==
    /\ status = "running"
    /\ TotalReads(nreads) < MaxReads
    /\ \E self \in 1..Len(layers) : resolved_solver_command(self)
    /\ UNCHANGED <<layers, status, reported, call, loadVars, locateVars, restVars>>

NextSolver == SolverLayer \/ ReadSolverCommand

SpecSolver == Init /\ [][NextSolver]_vars

---------------------------------------------------------------------------
(* Claims about resolved_solver_command, checked under SpecSolver *)

\* the winning (value, source) of the two options on layer i
SolverOf(i) == value_with_source(layers, i, "solver")

SolverCommandOf(i) == value_with_source(layers, i, "solver_command")

\* the override of layer i is non-empty and comes from a source at least as
\* high as the one of the solver name
OverrideApplies(i) ==
    /\ SolverCommandOf(i)[1] # None
    /\ Unbox(SolverCommandOf(i)[1]) # <<>>
    /\ SolverCommandOf(i)[2] >= SolverOf(i)[2]

\* C5: a read returns the shell-split override if and only if the resolved
\* solver_command is non-empty and its source is at least the source of
\* solver; in every other case the outcome is what the registry gives for
\* the resolved solver name (its command, or the error of C7 when it has none).
C5_OverrideIffAtLeastAsHigh ==
    ret # None =>
        LET r == Unbox(ret)
            registry == get_solver_command(SolverOf(r.layer)[1])
        IN  /\ OverrideApplies(r.layer) <=>
                  /\ r.kind = "value"
                  /\ r.cmd = shlex_split(Unbox(SolverCommandOf(r.layer)[1]))
            /\ ~OverrideApplies(r.layer) =>
                  IF registry = None
                  THEN r.kind = "RuntimeError"
                  ELSE r.kind = "value" /\ r.cmd = Unbox(registry)

\* a read of a layer whose override "a b" comes from the config file while
\* solver comes from the command line: the registry's command is returned
C5_Witness ==
    /\ ret # None
    /\ SolverCommandOf(Unbox(ret).layer) = <<Some(<<"a", " ", "b">>), config_file>>
    /\ SolverOf(Unbox(ret).layer) = <<Some("yices"), command_line>>
    /\ Unbox(ret).cmd = <<(<<"y">>), (<<"-", "m">>)>>

\* the number of warnings emitted with the given text
Emitted(text) == Cardinality({k \in 1..Len(log) : log[k].text = text})

Unresolvable(i) ==
    ~OverrideApplies(i) /\ get_solver_command(SolverOf(i)[1]) = None

\* C7: when the override does not win and the registry has no command for
\* the resolved solver name, every read of resolved_solver_command raises
\* the fatal error, and nothing is stored for the layer, so that later reads
\* raise it again.
C7_MissingSolverAlwaysFails ==
    /\ \A i \in 1..Len(layers) : Unresolvable(i) => cache[i] = None
    /\ ret # None =>
          (Unresolvable(Unbox(ret).layer) => Unbox(ret).kind = "RuntimeError")

\* the second read of a layer that resolves solver to z3 has failed too
C7_Witness ==
    /\ ret # None
    /\ Unresolvable(Unbox(ret).layer)
    /\ Reads(Unbox(ret).layer) = 2
    /\ Unbox(ret).kind = "RuntimeError"

---------------------------------------------------------------------------
(* resolve_config_files.  A path is a sequence of pieces of text; the empty
   sequence is the empty string. *)

\* the mutant of resolve_config_files: an explicit file is checked as well
resolve_checked(root, config, include_missing, exists) ==
    LET args_root == IF root = None THEN cwd ELSE Unbox(root)
        default_config_path == join(args_root, <<"halmos.toml">>)
    IN  IF Truthy(config)
        THEN IF Unbox(config) \in exists THEN <<Unbox(config)>> ELSE <<>>
        ELSE IF ~include_missing /\ default_config_path \notin exists
        THEN <<>>
        ELSE <<default_config_path>>

\* root and config are the values of --root and --config, None when the
\* flag is not given; exists is the set of paths os.path.exists accepts
resolve_config_files(root, config, include_missing, exists) ==
    LET args_root == IF root = None THEN cwd ELSE Unbox(root)
        default_config_path == join(args_root, <<"halmos.toml">>)
    IN  IF Truthy(config)
        THEN <<Unbox(config)>>
        ELSE IF ~include_missing /\ default_config_path \notin exists
        THEN <<>>
        ELSE <<default_config_path>>

---------------------------------------------------------------------------
(* Specification SpecLocate: calls of resolve_config_files in any file system *)

Roots == {None, Some(<<"r">>), Some(<<>>)}

ConfigPaths == {None, Some(<<"c.toml">>), Some(<<>>)}

AllPaths ==
    {join(cwd, <<"halmos.toml">>), join(<<"r">>, <<"halmos.toml">>),
     <<"halmos.toml">>, <<"c.toml">>}

InitLocate ==
    /\ layers = <<_create_default_config>>
    /\ status = "running"
    /\ reported = None
    /\ call = None
    /\ cache = <<None>>
    /\ log = <<>>
    /\ ret = None
    /\ nreads = <<>>
    /\ pc = "start"
    /\ parsed = None
    /\ parse_out = None
    /\ argv = None
    /\ fs \in SUBSET AllPaths
    /\ located = None
    /\ RestInit

Locate ==
    /\ \E root \in Roots, config \in ConfigPaths, include_missing \in BOOLEAN :
          located' = Some([root |-> root, config |-> config,
                           include_missing |-> include_missing,
                           files |-> resolve_config_files(
                                        root, config, include_missing, fs)])
    /\ UNCHANGED <<layers, status, reported, call, cache, solverVars,
                   loadVars, fs, restVars>>

NextLocate == Locate

SpecLocate == InitLocate /\ [][NextLocate]_vars

\* C10: resolve_config_files returns at most one path: the explicit config
\* path when one is given (an empty string is no path), whether or not it
\* exists; otherwise root/halmos.toml, root being the explicit root or the
\* current working directory, when that file exists or include_missing is
\* true, and no path when it does not exist and include_missing is false.
C10_ZeroOrOnePath ==
    located # None =>
        LET l == Unbox(located)
            root == IF l.root = None THEN cwd ELSE Unbox(l.root)
            path == join(root, <<"halmos.toml">>)
        IN  /\ Len(l.files) <= 1
            /\ IF l.config # None /\ Unbox(l.config) # <<>>
               THEN l.files = <<Unbox(l.config)>>
               ELSE IF path \in fs \/ l.include_missing
               THEN l.files = <<path>>
               ELSE l.files = <<>>

\* an explicit config path that does not exist is returned all the same
C10_Witness ==
    /\ located # None
    /\ Unbox(located).config = Some(<<"c.toml">>)
    /\ <<"c.toml">> \notin fs
    /\ Unbox(located).files = <<(<<"c.toml">>)>>

---------------------------------------------------------------------------
(* TomlParser.parse_dict.  A parsed document maps each top-level name to an
   entry: a table with its items, or a value that is no table. *)

\* key.replace("-", "_") on the keys the model writes into a file
replace_hyphens(key) ==
    CASE key = "coverage-output" -> "coverage_output"
      [] key = "default-array-lengths" -> "default_array_lengths"
      [] key = "foo-bar" -> "foo_bar"
      [] OTHER -> key


\* lines 802-806
SingleSectionError(doc) ==
    [error |-> "expected a single [global] section",
     count |-> Cardinality(DOMAIN doc), names |-> DOMAIN doc]

\* lines 811-814
GlobalSectionError(key) ==
    [error |-> "expected a [global] section", key |-> key]

\* line 827: the value goes through the parser of the field's action
ParsedValue(key, value) ==
    IF key \in CSVIntFields
    THEN Some(ParseCSVInt_parse(Unbox(value)).value)
    ELSE value

\* the mutant of SectionCountWrong: only an empty document is refused
SectionCountZero(doc) == Cardinality(DOMAIN doc) < 1

\* line 801
SectionCountWrong(doc) == Cardinality(DOMAIN doc) # 1

\* last maps each underscored key to the key of the table that is written
\* last among those that become it: the one whose value stays in result
parse_dict(doc, last) ==
    IF SectionCountWrong(doc)
    THEN [kind |-> "exit2", report |-> SingleSectionError(doc)]
    ELSE IF "global" \notin DOMAIN doc
    THEN [kind |-> "exit2",
          report |-> GlobalSectionError(CHOOSE key \in DOMAIN doc : TRUE)]
    ELSE IF ~doc["global"].table
    THEN [kind |-> "AttributeError"]
    ELSE LET data == doc["global"].items
         IN  IF \E key \in DOMAIN data :
                    /\ replace_hyphens(key) \in CSVIntFields
                    /\ ~ParseCSVInt_parse(Unbox(data[key])).ok
             THEN [kind |-> "ValueError"]
             ELSE [kind |-> "dict",
                   result |-> [key \in {replace_hyphens(k) : k \in DOMAIN data} |->
                                  ParsedValue(key, data[last[key]])]]

---------------------------------------------------------------------------
(* The argument parser of _create_arg_parser.  A command line maps each
   flag, named by its field, to the values of its occurrences, in order. *)

\* type=field_info.type, or the action's parse, applied to the raw text
Converted(f, raw) ==
    IF f \in CSVIntFields THEN ParseCSVInt_parse(raw).value
    ELSE IF f = "loop" THEN int(raw)
    ELSE raw

\* the mutant of parse_args: store_true with argparse's own default, False
parse_args_false(line) ==
    [f \in Fields |->
        IF f \in BoolFields
        THEN Some(Len(line[f]) > 0)
        ELSE IF f \in CountableFields
        THEN IF Len(line[f]) > 0 THEN Some(Len(line[f])) ELSE None
        ELSE IF Len(line[f]) > 0
        THEN Some(Converted(f, line[f][Len(line[f])]))
        ELSE None]

\* vars(parser.parse_args(line)): store_true with default=None, count, and
\* the store action, whose last occurrence stays
parse_args(line) ==
    [f \in Fields |->
        IF f \in BoolFields
        THEN IF Len(line[f]) > 0 THEN Some(TRUE) ELSE None
        ELSE IF f \in CountableFields
        THEN IF Len(line[f]) > 0 THEN Some(Len(line[f])) ELSE None
        ELSE IF Len(line[f]) > 0
        THEN Some(Converted(f, line[f][Len(line[f])]))
        ELSE None]

---------------------------------------------------------------------------
(* Specification SpecLoad: the configuration is assembled as the control
   flow of the spec describes: the default layer, then the layer of the
   config file when there is one, then the layer of the command line *)

\* the shapes of the top level of a document
Tops == {{}, {"global"}, {"tool"}, {"global", "tool"}, {"tool", "other"}}

FileKeys ==
    {"loop", "ffi", "coverage-output", "coverage_output",
     "default-array-lengths", "foo-bar", "source", "_parent"}

\* the values a file gives to a key
FileValues(key) ==
    CASE key = "loop" -> <<Some(4), Some(0)>>
      [] key = "ffi" -> <<Some(TRUE)>>
      [] key = "coverage-output" -> <<Some("x")>>
      [] key = "coverage_output" -> <<Some("y")>>
      [] key = "default-array-lengths" ->
            <<Some(<<"1", ",", " ", "2">>), Some(<<"x">>), Some(<<",">>)>>
      [] OTHER -> <<Some("v")>>

Document(tops, scalar, K, idx) ==
    [name \in tops |->
        IF name = "global"
        THEN [table |-> ~scalar, items |-> [k \in K |-> FileValues(k)[idx[k]]]]
        ELSE [table |-> TRUE, items |-> <<>>]]

\* toml_parser().parse_dict(parsed) on any document
ParseToml ==
    /\ status = "running"
    /\ pc = "start"
    /\ \E tops \in Tops, scalar \in BOOLEAN, K \in SUBSET FileKeys :
        /\ Cardinality(K) <= MaxFileKeys
        /\ ("global" \notin tops \/ scalar) => K = {}
        /\ scalar => "global" \in tops
        /\ \E idx \in [K -> 1..3] :
            /\ \A k \in K : idx[k] <= Len(FileValues(k))
            /\ \E last \in [{replace_hyphens(k) : k \in K} -> K] :
                /\ \A u \in DOMAIN last : replace_hyphens(last[u]) = u
                /\ LET doc == Document(tops, scalar, K, idx)
                       out == parse_dict(doc, last)
                   IN  /\ parsed' = Some(doc)
                       /\ parse_out' = Some(out)
                       /\ IF out.kind = "dict"
                          THEN pc' = "file" /\ UNCHANGED <<status, reported>>
                          ELSE IF out.kind = "exit2"
                          THEN /\ pc' = "end"
                               /\ status' = "exit2"
                               /\ reported' = Some(out.report)
                          ELSE /\ pc' = "end"
                               /\ status' = out.kind
                               /\ UNCHANGED reported
    /\ UNCHANGED <<layers, call, cache, solverVars, argv, locateVars, restVars>>

\* config.with_overrides(source=ConfigSource.config_file, **overrides)
FileLayer ==
    /\ status = "running"
    /\ pc = "file"
    /\ with_overrides(Len(layers), config_file, Unbox(parse_out).result)
    /\ pc' = IF status' = "running" THEN "cli" ELSE "end"
    /\ UNCHANGED <<solverVars, parsed, parse_out, argv, locateVars, restVars>>

\* resolve_config_files returned no path: there is no config-file layer
NoConfigFile ==
    /\ status = "running"
    /\ pc = "start"
    /\ pc' = "cli"
    /\ UNCHANGED <<layers, status, reported, call, cache, solverVars, parsed,
                   parse_out, argv, locateVars, restVars>>

\* n occurrences of a flag that takes no value
Repeated(n) == [i \in 1..n |-> <<>>]

LoopArgs == {<<>>, <<(<<"0">>)>>, <<(<<"1">>), (<<"1", "2">>)>>}

CoverageArgs == {<<>>, <<"y">>}

CommandLine(l, c, nf, nv) ==
    [f \in Fields |->
        CASE f = "loop" -> l
          [] f = "coverage_output" -> c
          [] f = "ffi" -> Repeated(nf)
          [] f = "verbose" -> Repeated(nv)
          [] OTHER -> <<>>]

\* lines 941-944: args = arg_parser().parse_args();
\* config.with_overrides(source=ConfigSource.command_line, **vars(args))
CliLayer ==
    /\ status = "running"
    /\ pc = "cli"
    /\ \E l \in LoopArgs, c \in CoverageArgs, nf \in 0..1,
          nv \in 0..MaxFlagRepeats :
            /\ argv' = Some(CommandLine(l, c, nf, nv))
            /\ with_overrides(Len(layers), command_line,
                              parse_args(CommandLine(l, c, nf, nv)))
    /\ pc' = IF status' = "running" THEN "done" ELSE "end"
    /\ UNCHANGED <<solverVars, parsed, parse_out, locateVars, restVars>>

NextLoad == ParseToml \/ FileLayer \/ NoConfigFile \/ CliLayer

SpecLoad == Init /\ [][NextLoad]_vars

---------------------------------------------------------------------------
(* Claims about the assembly, checked under SpecLoad *)

\* the overrides the config-file layer was built from, none without a file
FileOverrides == IF parse_out = None THEN <<>> ELSE Unbox(parse_out).result

\* C3 as stated: in the chain default -> config file -> command line, every
\* field whose flag was not given is absent in the command-line layer and
\* resolves to the file's value with source config_file when the file sets
\* it, and to the default with source default otherwise.
C3_UnsetFlagsDefer ==
    (pc = "done" /\ status = "running") =>
        \A f \in Fields :
            Len(Unbox(argv)[f]) = 0 =>
                /\ layers[Len(layers)].vals[f] = None
                /\ value_with_source(layers, Len(layers), f) =
                      IF f \in DOMAIN FileOverrides
                      THEN <<FileOverrides[f], config_file>>
                      ELSE <<layers[1].vals[f], default>>

\* C3 amended: the same, except that a field the file does not set and
\* whose stored default is None resolves to (None, void).
C3_UnsetFlagsDeferOrVoid ==
    (pc = "done" /\ status = "running") =>
        \A f \in Fields :
            Len(Unbox(argv)[f]) = 0 =>
                /\ layers[Len(layers)].vals[f] = None
                /\ value_with_source(layers, Len(layers), f) =
                      IF f \in DOMAIN FileOverrides
                      THEN <<FileOverrides[f], config_file>>
                      ELSE IF layers[1].vals[f] # None
                      THEN <<layers[1].vals[f], default>>
                      ELSE <<None, void>>

\* default loop = 2, the file sets loop = 4 and ffi = true, and neither
\* --loop nor --ffi is given: loop resolves to (4, config_file)
C3_Witness ==
    /\ pc = "done"
    /\ status = "running"
    /\ Len(layers) = 3
    /\ layers[1].vals["loop"] = Some(2)
    /\ layers[2].vals["loop"] = Some(4)
    /\ layers[2].vals["ffi"] = Some(TRUE)
    /\ Unbox(argv)["loop"] = <<>>
    /\ Unbox(argv)["ffi"] = <<>>
    /\ Len(Unbox(argv)["verbose"]) = 2
    /\ value_with_source(layers, 3, "loop") = <<Some(4), config_file>>
    /\ value_with_source(layers, 3, "ffi") = <<Some(TRUE), config_file>>

\* C8: parse_dict returns a mapping only for a document with exactly one
\* top-level entry, named global; a document with zero or several entries
\* exits with status 2 after reporting their number and all their names, and
\* a document whose single entry has another name exits with status 2 after
\* reporting that name.
C8_SingleGlobalSection ==
    parse_out # None =>
        LET doc == Unbox(parsed)
            out == Unbox(parse_out)
        IN  /\ out.kind = "dict" => DOMAIN doc = {"global"}
            /\ Cardinality(DOMAIN doc) # 1 =>
                  /\ out.kind = "exit2"
                  /\ status = "exit2"
                  /\ Unbox(reported).error = "expected a single [global] section"
                  /\ Unbox(reported).count = Cardinality(DOMAIN doc)
                  /\ Unbox(reported).names = DOMAIN doc
            /\ (Cardinality(DOMAIN doc) = 1 /\ "global" \notin DOMAIN doc) =>
                  /\ out.kind = "exit2"
                  /\ status = "exit2"
                  /\ Unbox(reported).error = "expected a [global] section"
                  /\ {Unbox(reported).key} = DOMAIN doc

\* a document with the two tables tool and other has ended the process
\* with both names reported
C8_Witness ==
    /\ parse_out # None
    /\ DOMAIN Unbox(parsed) = {"tool", "other"}
    /\ status = "exit2"
    /\ Unbox(reported).count = 2
    /\ Unbox(reported).names = {"tool", "other"}

\* C9: the reader drops no key: every key of the global table is in the
\* returned mapping with its hyphens replaced by underscores, its value
\* through the codec of the field when it has one and verbatim otherwise;
\* and a key that names no schema field makes the with_overrides call that
\* follows exit with status 2 and an unrecognized-argument report.
C9_ReaderKeepsEveryKey ==
    (parse_out # None /\ Unbox(parse_out).kind = "dict") =>
        LET data == Unbox(parsed)["global"].items
            result == Unbox(parse_out).result
        IN  /\ \A k \in DOMAIN data :
                  /\ replace_hyphens(k) \in DOMAIN result
                  /\ \E k2 \in DOMAIN data :
                        /\ replace_hyphens(k2) = replace_hyphens(k)
                        /\ result[replace_hyphens(k)] =
                              IF replace_hyphens(k) \in CSVIntFields
                              THEN Some(ParseCSVInt_parse(Unbox(data[k2])).value)
                              ELSE data[k2]
            /\ (call # None /\ ~(DOMAIN result \subseteq Fields)) =>
                  /\ status = "exit2"
                  /\ Len(layers) = 1
                  /\ Unbox(reported).error = "unrecognized argument"
                  /\ Unbox(reported).key \in DOMAIN result \ Fields

---------------------------------------------------------------------------
(* Specification SpecCodec: a value of a codec's domain is unparsed and the
   text is parsed again *)

\* the sequences over S of the lengths lo to hi
SeqsOf(S, lo, hi) == UNION {[1..n -> S] : n \in lo..hi}

\* those without a repetition: the orders in which the subsets of S are listed
OrdersOf(S, hi) ==
    {o \in SeqsOf(S, 0, hi) : \A j, k \in 1..Len(o) : o[j] = o[k] => j = k}

Range(o) == {o[n] : n \in 1..Len(o)}

\* durations: the first ticks and every quarter of a second up to MaxSeconds
TimeoutValues ==
    {t \in 0..MaxSeconds * TicksPerSecond :
        t <= 2 * TicksPerMs \/ t % (250 * TicksPerMs) = 0}

\* what int() and int(x, 0) return for some text
IntValues == {-1, 0, 7, 10}

ErrorCodeValues == {-1, 0, 1, 17, 255, 256}

\* the non-negative integers that \d+ writes
ArraySizes == {0, 12}

\* names of arrays: no blank and none of = , { }
ArrayNames == {<<"a">>, <<"b", "1">>}

Trip(codec, value, text, back) ==
    Some([codec |-> codec, value |-> value, text |-> text, back |-> back])

TimeoutTrip ==
    /\ \E v \in TimeoutValues :
          trip' = Trip("ParseTimeout", v, ParseTimeout_unparse(v),
                       ParseTimeout_parse(ParseTimeout_unparse(v)))
    /\ UNCHANGED <<layers, status, reported, call, cache, solverVars,
                   loadVars, locateVars, memoVars, workerVars,
                   templateVars>>

CSVIntTrip ==
    /\ \E v \in SeqsOf(IntValues, 1, MaxListLen) :
          trip' = Trip("ParseCSVInt", v, ParseCSVInt_unparse(v),
                       ParseCSVInt_parse(ParseCSVInt_unparse(v)))
    /\ UNCHANGED <<layers, status, reported, call, cache, solverVars,
                   loadVars, locateVars, memoVars, workerVars,
                   templateVars>>

CSVTraceEventTrip ==
    /\ \E v \in SeqsOf(TraceEvent, 0, MaxListLen) :
          trip' = Trip("ParseCSVTraceEvent", v, ParseCSVTraceEvent_unparse(v),
                       ParseCSVTraceEvent_parse(ParseCSVTraceEvent_unparse(v)))
    /\ UNCHANGED <<layers, status, reported, call, cache, solverVars,
                   loadVars, locateVars, memoVars, workerVars,
                   templateVars>>

ErrorCodesTrip ==
    /\ \E order \in OrdersOf(ErrorCodeValues, MaxListLen) :
          trip' = Trip("ParseErrorCodes", Range(order),
                       ParseErrorCodes_unparse(order),
                       ParseErrorCodes_parse(ParseErrorCodes_unparse(order)))
    /\ UNCHANGED <<layers, status, reported, call, cache, solverVars,
                   loadVars, locateVars, memoVars, workerVars,
                   templateVars>>

ArrayLengthsTrip ==
    /\ \E order \in OrdersOf(ArrayNames, MaxListLen) :
          \E v \in [Range(order) -> SeqsOf(ArraySizes, 1, MaxListLen)] :
              trip' = Trip("ParseArrayLengths", v,
                           ParseArrayLengths_unparse(v, order),
                           ParseArrayLengths_parse(
                               ParseArrayLengths_unparse(v, order)))
    /\ UNCHANGED <<layers, status, reported, call, cache, solverVars,
                   loadVars, locateVars, memoVars, workerVars,
                   templateVars>>

NextCodec ==
    \/ TimeoutTrip
    \/ CSVIntTrip
    \/ CSVTraceEventTrip
    \/ ErrorCodesTrip
    \/ ArrayLengthsTrip

SpecCodec == Init /\ [][NextCodec]_vars

\* C11: for every built-in codec and every value v of its domain,
\* parse(unparse(v)) succeeds and is v.
C11_RoundTrip ==
    trip # None =>
        /\ Unbox(trip).back.ok
        /\ Unbox(trip).back.value = Unbox(trip).value

---------------------------------------------------------------------------
(* Config.values and Config.values_by_layer *)

\* the (name, value) pairs that values() yields: every field for a layer
\* without a parent, the fields with a value for the others
values(ls, self) ==
    LET skip_empty == ls[self]._parent # NoLayer
    IN  [f \in {g \in Fields : ~(skip_empty /\ ls[self].vals[g] = None)} |->
            ls[self].vals[f]]

\* od[key] = value on an OrderedDict, a sequence of <<key, value>>: a key
\* that is there keeps its place and gets the new value
setitem(od, key, value) ==
    IF \E k \in 1..Len(od) : od[k][1] = key
    THEN [k \in 1..Len(od) |-> IF od[k][1] = key THEN <<key, value>> ELSE od[k]]
    ELSE Append(od, <<key, value>>)

RECURSIVE values_by_layer(_, _)
values_by_layer(ls, self) ==
    IF ls[self]._parent = NoLayer
    THEN <<(<<ls[self]._source, values(ls, self)>>)>>
    ELSE setitem(values_by_layer(ls, ls[self]._parent),
                 ls[self]._source, values(ls, self))

\* the entry holds what the layer stores: each field it lists has the
\* layer's value, and it lists every field the layer has a value for
HoldsValuesOf(entry, layer) ==
    /\ \A f \in DOMAIN entry : entry[f] = layer.vals[f]
    /\ \A f \in Fields : layer.vals[f] # None => f \in DOMAIN entry

\* C12: for every chain, whether or not source tags repeat along it,
\* values_by_layer on the leaf yields one entry per layer of the chain, from
\* the root to the leaf, each with the source and the values of its layer.
C12_OneEntryPerLayer ==
    \A i \in 1..Len(layers) :
        LET c == ChainOf(layers, i)
            out == values_by_layer(layers, i)
        IN  /\ Len(out) = Len(c)
            /\ \A k \in 1..Len(c) :
                  LET layer == layers[c[Len(c) + 1 - k]]
                  IN  /\ out[k][1] = layer._source
                      /\ HoldsValuesOf(out[k][2], layer)

---------------------------------------------------------------------------
(* Specification SpecDefault: chains over the default layer whose layers
   override fields that have a stored default *)

\* the overrides of one layer: none, loop without a value or with one, or root
DefaultOverrides ==
    {<<>>, [loop |-> None], [loop |-> Some(3)], [root |-> Some(<<"r">>)]}

DeriveLayer ==
    /\ status = "running"
    /\ Len(layers) <= MaxLayers
    /\ \E self \in 1..Len(layers), source \in ConfigSource,
          overrides \in DefaultOverrides :
            with_overrides(self, source, overrides)
    /\ UNCHANGED <<solverVars, loadVars, locateVars, restVars>>

NextDefault == DeriveLayer

SpecDefault == Init /\ [][NextDefault]_vars

\* what the claim says the default layer stores for each field: the global
\* default, the result of the call for a function, the parsed value for a
\* field with a codec
StoredDefault(f) ==
    CASE f = "root" -> Some(<<"cwd">>)
      [] f = "config" -> Some(<<"cwd", "/", "halmos.toml">>)
      [] f = "loop" -> Some(2)
      [] f = "array_lengths" -> Some(<<>>)
      [] f = "default_array_lengths" -> Some(<<0, 1, 2>>)
      [] f = "ffi" -> Some(FALSE)
      [] f = "version" -> Some(FALSE)
      [] f = "coverage_output" -> None
      [] f = "verbose" -> Some(0)
      [] f = "json_output" -> None
      [] f = "trace_memory" -> Some(FALSE)
      [] f = "solver" -> Some("yices")
      [] f = "solver_command" -> Some(<<>>)
      [] f = "log" -> None

\* C13: the default layer has no parent and the source default, and stores
\* for every field its global default (called when it is a function, parsed
\* when the field has a codec); on every chain over it, a field whose stored
\* default is not None never resolves to (None, void).
C13_DefaultLayerGrounds ==
    /\ layers[1]._parent = NoLayer
    /\ layers[1]._source = default
    /\ \A f \in Fields : layers[1].vals[f] = StoredDefault(f)
    /\ \A i \in 1..Len(layers), f \in Fields :
          layers[1].vals[f] # None =>
              value_with_source(layers, i, f) # <<None, void>>

\* a leaf tagged void that stores loop = 3 over a command-line layer that
\* stores no loop: the chain resolves loop to the default 2
C13_Witness ==
    \E i \in 1..Len(layers) :
        LET c == ChainOf(layers, i)
        IN  /\ Len(c) = 3
            /\ c[3] = 1
            /\ layers[c[1]]._source = void
            /\ layers[c[1]].vals["loop"] = Some(3)
            /\ layers[c[2]]._source = command_line
            /\ layers[c[2]].vals["loop"] = None
            /\ value_with_source(layers, i, "loop") = <<Some(2), default>>
            /\ value_with_source(layers, i, "root") = <<Some(cwd), default>>

---------------------------------------------------------------------------
(* Config.__hash__ and the memoized Config.__getattribute__.  The cache of
   lru_cache is a sequence of entries, the least recently used first; the
   state of a call in progress is the cache and the number of evictions. *)

\* @lru_cache(maxsize=64)
maxsize == 64

\* the fields in the order of the dataclass
FieldOrder ==
    <<"root", "config", "loop", "array_lengths", "default_array_lengths",
      "ffi", "version", "coverage_output", "verbose", "json_output",
      "trace_memory", "solver", "solver_command", "log">>

\* id(self): the layers are all alive, and the index of a layer is its identity
id(self) == self

\* the mutant of hash: the hash that a frozen dataclass generates from its
\* fields
hash_of_fields(ls, self) == <<ls[self]._source, ls[self].vals>>

\* Config.__hash__
hash(ls, self) == id(self)

RECURSIVE Config_eq(_, _, _)
\* the __eq__ that @dataclass generates, reached for two keys of equal hash:
\* the same object, or equal parents, sources and attributes, the attributes
\* being read through __getattribute__
Config_eq(ls, a, b) ==
    \/ a = b
    \/ /\ a # NoLayer
       /\ b # NoLayer
       /\ Config_eq(ls, ls[a]._parent, ls[b]._parent)
       /\ ls[a]._source = ls[b]._source
       /\ \A f \in Fields :
             value_with_source(ls, a, f)[1] = value_with_source(ls, b, f)[1]

\* the entry of the cache that the key (self, name) finds, 0 when none
Found(ls, st, self, name) ==
    LET hits == {k \in 1..Len(st.cache) :
                    /\ st.cache[k].name = name
                    /\ hash(ls, st.cache[k].self) = hash(ls, self)
                    /\ Config_eq(ls, st.cache[k].self, self)}
    IN  IF hits = {} THEN 0 ELSE CHOOSE k \in hits : TRUE

\* a hit makes the entry the most recently used
Touched(st, k) ==
    [st EXCEPT !.cache =
        SubSeq(st.cache, 1, k - 1) \o SubSeq(st.cache, k + 1, Len(st.cache))
            \o <<st.cache[k]>>]

\* a miss stores the result; a full cache drops its least recently used entry
Stored(st, self, name, value) ==
    LET entry == [self |-> self, name |-> name, value |-> value]
    IN  IF Len(st.cache) >= maxsize
        THEN [cache |-> Append(Tail(st.cache), entry),
              evictions |-> st.evictions + 1]
        ELSE [st EXCEPT !.cache = Append(st.cache, entry)]

\* the outcome of one call: the state after it, the value returned and the
\* layer whose read made the entry when the cache gave the value
Outcome(st, value, hit, owner) ==
    [st |-> st, value |-> value, hit |-> hit, owner |-> owner]

\* object.__getattribute__(self, name) for the names of line 652
Plain(ls, self, name) ==
    CASE name = "_parent" -> Some(ls[self]._parent)
      [] name = "_source" -> Some(ls[self]._source)
      [] OTHER -> Some(<<"bound method", name>>)

\* self._parent, self._source, self.value_with_source: through the cache too
GetInternal(ls, st, self, name) ==
    LET k == Found(ls, st, self, name)
    IN  IF k # 0
        THEN Outcome(Touched(st, k), st.cache[k].value, TRUE, st.cache[k].self)
        ELSE Outcome(Stored(st, self, name, Plain(ls, self, name)),
                     Plain(ls, self, name), FALSE, self)

RECURSIVE WalkThroughCache(_, _, _, _, _)
\* the loop of value_with_source as it runs inside __getattribute__:
\* current._source is read when the stored value is present, then
\* current._parent
WalkThroughCache(ls, st, current, name, best) ==
    IF current = NoLayer
    THEN Outcome(st, best, FALSE, NoLayer)
    ELSE LET value == ls[current].vals[name]
             src == IF value # None
                    THEN GetInternal(ls, st, current, "_source")
                    ELSE Outcome(st, Some(void), FALSE, current)
             parent == GetInternal(ls, src.st, current, "_parent")
         IN  WalkThroughCache(ls, parent.st, Unbox(parent.value), name,
                              IF Takes(value, Unbox(src.value), best[2])
                              THEN <<value, Unbox(src.value)>>
                              ELSE best)

\* getattr(self, name) for a field: the cached value, or the value of the
\* walk, which is then stored
GetField(ls, st, self, name) ==
    LET k == Found(ls, st, self, name)
        method == GetInternal(ls, st, self, "value_with_source")
        walked == WalkThroughCache(ls, method.st, self, name, <<None, void>>)
    IN  IF k # 0
        THEN Outcome(Touched(st, k), st.cache[k].value, TRUE, st.cache[k].self)
        ELSE Outcome(Stored(walked.st, self, name, walked.value[1]),
                     walked.value[1], FALSE, self)

\* what a read leaves in got
Read(self, name, out) ==
    [self |-> self, name |-> name, value |-> out.value, hit |-> out.hit,
     owner |-> out.owner]

RECURSIVE ReadAll(_, _, _)
\* the fields are read one after the other, in the order of the dataclass;
\* done holds the state and the reads so far
ReadAll(ls, done, self) ==
    IF Len(done.reads) = Len(FieldOrder)
    THEN done
    ELSE LET name == FieldOrder[Len(done.reads) + 1]
             out == GetField(ls, done.st, self, name)
         IN  ReadAll(ls, [st |-> out.st,
                          reads |-> Append(done.reads, Read(self, name, out))],
                     self)

---------------------------------------------------------------------------
(* Specification SpecMemo: layers are derived from any layer, and their
   options are read as attributes, all of them or one *)

MemoOverrides ==
    {[source |-> command_line, overrides |-> [coverage_output |-> Some("x")]],
     [source |-> config_file, overrides |-> [coverage_output |-> Some("y")]]}

MemoLayer ==
    /\ status = "running"
    /\ Len(layers) <= MaxMemoLayers
    /\ \E self \in 1..Len(layers), o \in MemoOverrides :
          with_overrides(self, o.source, o.overrides)
    /\ UNCHANGED <<solverVars, loadVars, locateVars, restVars>>

\* a consumer reads every option of a layer; the layers are gone through
\* in the order of their construction, some of them left out
Sweep ==
    /\ status = "running"
    /\ \E self \in swept + 1..Len(layers) :
          /\ swept' = self
          /\ LET out == ReadAll(layers,
                                [st |-> [cache |-> lru, evictions |-> evictions],
                                 reads |-> <<>>],
                                self)
             IN  /\ lru' = out.st.cache
                 /\ evictions' = out.st.evictions
                 /\ got' = out.reads
    /\ UNCHANGED <<layers, status, reported, call, cache, solverVars,
                   loadVars, locateVars, codecVars, workerVars,
                   templateVars,
                   nfieldreads>>

MemoFields == {"loop", "coverage_output"}

\* a consumer reads one option of a layer
ReadField ==
    /\ status = "running"
    /\ nfieldreads < MaxFieldReads
    /\ nfieldreads' = nfieldreads + 1
    /\ \E self \in 1..Len(layers), name \in MemoFields :
          LET out == GetField(layers, [cache |-> lru, evictions |-> evictions],
                              self, name)
          IN  /\ lru' = out.st.cache
              /\ evictions' = out.st.evictions
              /\ got' = <<Read(self, name, out)>>
    /\ UNCHANGED <<layers, status, reported, call, cache, solverVars,
                   loadVars, locateVars, codecVars, workerVars,
                   templateVars,
                   swept>>

NextMemo == MemoLayer \/ Sweep \/ ReadField

SpecMemo == Init /\ [][NextMemo]_vars

\* C14: every attribute read returns the value of the uncached walk on the
\* layer that was read, and a value the cache gives comes from an entry
\* made by a read of that same layer object, also after entries were
\* evicted and when another layer has equal source, parent and values.
C14_CacheIsTransparent ==
    /\ \A n \in 1..Len(got) :
          /\ got[n].value = value_with_source(layers, got[n].self, got[n].name)[1]
          /\ got[n].hit => got[n].owner = got[n].self
    /\ \A k \in 1..Len(lru) :
          lru[k].name \in Fields =>
              lru[k].value = value_with_source(layers, lru[k].self, lru[k].name)[1]

\* two distinct layers of equal source, parent and values have an entry
\* each for coverage_output, entries were evicted, and the read of loop on a
\* layer whose entry was evicted has walked the chain again
C14_Witness ==
    /\ evictions > 0
    /\ \E a, b \in 1..Len(layers) :
          /\ a # b
          /\ layers[a] = layers[b]
          /\ \E j, k \in 1..Len(lru) :
                /\ lru[j].self = a
                /\ lru[k].self = b
                /\ lru[j].name = "coverage_output"
                /\ lru[k].name = "coverage_output"
    /\ swept = Len(layers)
    /\ Len(got) = 1
    /\ got[1].name = "loop"
    /\ ~got[1].hit
    /\ got[1].value = Some(2)

---------------------------------------------------------------------------
(* Specification SpecWorkers: worker threads read resolved_solver_command
   while a chain of layers is built.  cached_property looks the value up
   in the instance's __dict__, runs the body when it is not there, stores the
   result and returns it; where it takes a lock around these steps, the
   executions are among the ones here, in which nothing keeps two threads
   from running the body for the same layer. *)

\* what the body computes for a layer
Body(self) ==
    LET s == value_with_source(layers, self, "solver")
        c == value_with_source(layers, self, "solver_command")
    IN  Computed(c[1], c[2], s[1], s[2])

\* the mutant of StoredValue: the result that any thread computed last
StoredValueShared(w) == Unbox(ret).cmd

\* cache[self.attrname] = val: the thread stores the result of its own call
StoredValue(w) == Unbox(workers[w].val).cmd

\* the layers of the chain that the workers read: solver_command or an
\* unavailable solver, from the config file or the command line
WorkerOverrides ==
    {[source |-> src, overrides |-> o] :
        src \in SolverSources,
        o \in {[solver_command |-> Some(<<"a", " ", "b">>)],
               [solver |-> Some("z3")]}}

WorkerChainLayer ==
    /\ status = "running"
    /\ Len(layers) <= MaxLayers
    /\ \E o \in WorkerOverrides :
          with_overrides(Len(layers), o.source, o.overrides)
    /\ UNCHANGED <<solverVars, loadVars, locateVars, restVars>>

\* val = cache.get(self.attrname, _NOT_FOUND); each worker reads one layer
WorkerLooksUp(w) ==
    /\ status = "running"
    /\ workers[w].pc = "idle"
    /\ \E self \in 1..Len(layers) :
          workers' = [workers EXCEPT ![w] =
                IF cache[self] # None
                THEN [pc |-> "done", self |-> self, val |-> None,
                      out |-> Some([kind |-> "value", cmd |-> Unbox(cache[self])])]
                ELSE [pc |-> "body", self |-> self, val |-> None, out |-> None]]
    /\ UNCHANGED <<layers, status, reported, call, cache, solverVars, loadVars,
                   locateVars, codecVars, memoVars,
                   templateVars>>

\* val = self.func(instance): the body returns or raises
WorkerRunsBody(w) ==
    /\ status = "running"
    /\ workers[w].pc = "body"
    /\ LET self == workers[w].self
           s == value_with_source(layers, self, "solver")
           c == value_with_source(layers, self, "solver_command")
           val == Body(self)
       IN  /\ log' = IF /\ OverrideWins(c[1], c[2], s[2])
                        /\ SamePrecedence(c[2], s[2])
                     THEN warn_unique(s[2], self)
                     ELSE log
           /\ ret' = Some([layer |-> self, kind |-> val.kind, cmd |-> val.cmd])
           /\ workers' = [workers EXCEPT ![w] =
                 IF val.kind = "value"
                 THEN [pc |-> "store", self |-> self, val |-> Some(val),
                       out |-> None]
                 ELSE [pc |-> "done", self |-> self, val |-> Some(val),
                       out |-> Some(val)]]
    /\ UNCHANGED <<layers, status, reported, call, cache, nreads, loadVars,
                   locateVars, codecVars, memoVars,
                   templateVars>>

\* cache[self.attrname] = val; return val
WorkerStores(w) ==
    /\ status = "running"
    /\ workers[w].pc = "store"
    /\ cache' = [cache EXCEPT ![workers[w].self] = Some(StoredValue(w))]
    /\ workers' = [workers EXCEPT ![w].pc = "done", ![w].out = workers[w].val]
    /\ UNCHANGED <<layers, status, reported, call, solverVars, loadVars,
                   locateVars, codecVars, memoVars,
                   templateVars>>

NextWorkers ==
    \/ WorkerChainLayer
    \/ \E w \in 1..MaxWorkers :
          WorkerLooksUp(w) \/ WorkerRunsBody(w) \/ WorkerStores(w)

SpecWorkers == Init /\ [][NextWorkers]_vars

\* C15: in every interleaving, a worker that has read resolved_solver_command
\* of a layer has got what a single-threaded resolution of that layer gives
\* (the same tokens, or the same error), and a value in the cache of a layer
\* is that same token sequence.
C15_RaceIsBenign ==
    /\ \A w \in 1..MaxWorkers :
          workers[w].pc = "done" => Unbox(workers[w].out) = Body(workers[w].self)
    /\ \A i \in 1..Len(layers) :
          cache[i] # None =>
              Body(i).kind = "value" /\ Unbox(cache[i]) = Body(i).cmd

\* two workers have both run the body for the same layer, one after the
\* other has stored, and both have returned the shell-split override
C15_Witness ==
    /\ workers[1].pc = "done"
    /\ workers[2].pc = "done"
    /\ workers[1].self = workers[2].self
    /\ workers[1].val # None
    /\ workers[2].val # None
    /\ Unbox(workers[1].out).cmd = <<(<<"a">>), (<<"b">>)>>
    /\ Unbox(workers[2].out).cmd = <<(<<"a">>), (<<"b">>)>>
    /\ cache[workers[1].self] = Some(<<(<<"a">>), (<<"b">>)>>)

---------------------------------------------------------------------------
(* Specification SpecShare: with_overrides is called on any layer, with
   overrides that it accepts and overrides that it refuses *)

ShareOverrides ==
    {<<>>, [coverage_output |-> Some("x")], [loop |-> Some(3)],
     [loop |-> Some(3), foo |-> Some("v")], [_source |-> Some("v")],
     [source |-> Some("v")]}

\* the number of layers is bounded; a call that is refused makes none
ShareLayer ==
    /\ status = "running"
    /\ \E self \in 1..Len(layers), source \in SolverSources,
          overrides \in ShareOverrides :
            /\ Len(layers) <= MaxLayers \/ ~(DOMAIN overrides \subseteq Fields)
            /\ with_overrides(self, source, overrides)
    /\ UNCHANGED <<solverVars, loadVars, locateVars, restVars>>

NextShare == ShareLayer

SpecShare == Init /\ [][NextShare]_vars

\* C16: a with_overrides call, whether it makes a layer or fails, leaves
\* every layer that existed before it as it was (parent, source and stored
\* values), and every field of every such layer resolves to the same
\* (value, source) after the call as before.
C16_ExistingLayersUntouched ==
    [][/\ Len(layers') >= Len(layers)
       /\ \A i \in 1..Len(layers) :
             /\ layers'[i] = layers[i]
             /\ \A f \in Fields :
                   value_with_source(layers', i, f) =
                       value_with_source(layers, i, f)]_vars

\* the default layer is the parent of two derived layers that store
\* different things, and a later call on it was refused
C16_Witness ==
    /\ Len(layers) = 3
    /\ layers[2]._parent = 1
    /\ layers[3]._parent = 1
    /\ layers[2].vals["loop"] = Some(3)
    /\ layers[3].vals["coverage_output"] = Some("x")
    /\ status = "exit2"
    /\ Unbox(call).self = 1
    /\ value_with_source(layers, 1, "loop") = <<Some(2), default>>

---------------------------------------------------------------------------
(* main: the sample config file *)

\* fields(config): the internal fields come first
DataclassOrder == <<"_parent", "_source">> \o FieldOrder

\* the group metadata of each field, None for the fields without a group
group(f) ==
    CASE f \in {"verbose", "json_output", "trace_memory"} -> Some("Debugging options")
      [] f \in {"solver", "solver_command"} -> Some("Solver options")
      [] f = "log" -> Some("Deprecated options")
      [] OTHER -> None

deprecated == Some("Deprecated options")

\* field_info.name.replace("_", "-")
replace_underscores(name) ==
    CASE name = "array_lengths" -> "array-lengths"
      [] name = "default_array_lengths" -> "default-array-lengths"
      [] name = "coverage_output" -> "coverage-output"
      [] name = "json_output" -> "json-output"
      [] name = "trace_memory" -> "trace-memory"
      [] name = "solver_command" -> "solver-command"
      [] OTHER -> name

\* line 966: the names that make no sense in a config file
SkippedNames == {"config", "root", "version", "trace_memory"}

\* lines 961-973: the field gets no entry
Skipped(f) ==
    \/ f \in InternalFields
    \/ replace_underscores(f) \in SkippedNames
    \/ group(f) = deprecated

\* lines 992-993: the value goes through unparse when the field has an action
Unparsed(f, value) ==
    IF f \in CSVIntFields THEN Some(ParseCSVInt_unparse(Unbox(value)))
    ELSE IF f \in ArrayLengthsFields
    THEN Some(ParseArrayLengths_unparse(Unbox(value), <<>>))
    ELSE value

\* lines 987-1003: a commented placeholder when there is no value or the
\* default is a function and the value is not from the command line, the
\* value otherwise
Entry(ls, config, f) ==
    LET resolved == value_with_source(ls, config, f)
        value == Unparsed(f, resolved[1])
    IN  [field |-> f,
         name |-> replace_underscores(f),
         commented |-> \/ value = None
                       \/ f \in CallableDefaults /\ resolved[2] # command_line,
         value |-> value]

RECURSIVE Entries(_, _, _)
\* the loop of line 960 from position n on
Entries(ls, config, n) ==
    IF n > Len(DataclassOrder) THEN <<>>
    ELSE IF Skipped(DataclassOrder[n]) THEN Entries(ls, config, n + 1)
    ELSE <<Entry(ls, config, DataclassOrder[n])>> \o Entries(ls, config, n + 1)

---------------------------------------------------------------------------
(* Specification SpecTemplate: python -m halmos.config ARGS *)

RootArgs == {<<>>, <<(<<"r">>)>>}

\* the command line: the flags of CommandLine and --root, --trace-memory
TemplateLine(l, c, nf, nv, r, nt) ==
    [CommandLine(l, c, nf, nv) EXCEPT !["root"] = r,
                                      !["trace_memory"] = Repeated(nt)]

\* the whole of main: the arguments are parsed, the layer of the command
\* line is put over the default layer and the entries are emitted
Main ==
    /\ status = "running"
    /\ pc = "start"
    /\ \E l \in LoopArgs, c \in CoverageArgs, nf \in 0..1,
          nv \in 0..MaxFlagRepeats, r \in RootArgs, nt \in 0..1 :
            /\ argv' = Some(TemplateLine(l, c, nf, nv, r, nt))
            /\ with_overrides(1, command_line,
                              parse_args(TemplateLine(l, c, nf, nv, r, nt)))
    /\ template' = Some(Entries(layers', Len(layers'), 1))
    /\ pc' = "done"
    /\ UNCHANGED <<solverVars, parsed, parse_out, locateVars, codecVars,
                   memoVars, workerVars>>

NextTemplate == Main

SpecTemplate == Init /\ [][NextTemplate]_vars

\* the number of entries of the template for field f
EntriesFor(f) ==
    Cardinality({n \in 1..Len(Unbox(template)) : Unbox(template)[n].field = f})

\* C17: the template has no entry for the internal fields, for the fields
\* of the deprecated group, and for config, root, version and trace_memory;
\* every other field of the schema has exactly one entry.
C17_TemplateLeavesOut ==
    template # None =>
        \A f \in SchemaFields :
            EntriesFor(f) =
                IF \/ f \in InternalFields
                   \/ group(f) = deprecated
                   \/ f \in {"config", "root", "version", "trace_memory"}
                THEN 0
                ELSE 1

====
